---- MODULE Spec2Model ----
(***************************************************************************)
(* Model of michaperki/promptly, src/main.py: the worker thread            *)
(* FileConcatenatorThread (discovery, filtering, git tracked-file          *)
(* resolution, concatenation) and the part of ConcatenatorApp that starts  *)
(* it, cancels it and handles its signals.                                 *)
(*                                                                         *)
(* Strings are sequences of one-character strings, so that splitext,       *)
(* lower() and fnmatch are computed as the code computes them.  A path is  *)
(* the sequence of its segments (POSIX, os.sep = "/").                     *)
(***************************************************************************)
EXTENDS Integers, Sequences, FiniteSets, TLC

(***************************************************************************)
(* Bounds of the model.                                                    *)
(***************************************************************************)
\* at most this many tree items are checked when Generate is pressed
MaxChecked == 2
\* at most this many git invocations of one run time out or fail to start
MaxVcsFailures == 2
\* at most this many worker threads are constructed in one behaviour
MaxRuns == 2
\* the number of files of the directory "b" (used by SpecProgress only)
MaxFiles == 50
\* at most this many edits of the request are made in one behaviour of SpecUi
MaxEdits == 2

(***************************************************************************)
(* The file system the runs work on.                                       *)
(*                                                                         *)
(*   p/                 the selected root directory, in no repository      *)
(*     a.py                                                                *)
(*     nm/c.py          nm is a directory-ignore name                      *)
(*     r/               a git repository (its top level)                   *)
(*       x.t.py  E.PY  .py  d.py                                           *)
(*       nm/g.py        a nested ignored directory                         *)
(*     z/               a directory whose listing is denied                *)
(*       h.py                                                              *)
(*   p/gone             checked in the tree, deleted since                 *)
(*   b/                 a second directory the user may open instead of p, *)
(*     f01.py .. fNN.py in no repository, NN = MaxFiles                    *)
(***************************************************************************)
n_p    == <<"p">>
n_r    == <<"r">>
n_nm   == <<"n", "m">>
n_z    == <<"z">>
n_gone == <<"g", "o", "n", "e">>
n_a_py == <<"a", ".", "p", "y">>
n_c_py == <<"c", ".", "p", "y">>
n_d_py == <<"d", ".", "p", "y">>
n_g_py == <<"g", ".", "p", "y">>
n_h_py == <<"h", ".", "p", "y">>
n_E_PY == <<"E", ".", "P", "Y">>
n_dotpy == <<".", "p", "y">>
n_x_t_py == <<"x", ".", "t", ".", "p", "y">>

d_p    == <<n_p>>
d_nm   == <<n_p, n_nm>>
d_r    == <<n_p, n_r>>
d_rnm  == <<n_p, n_r, n_nm>>
d_z    == <<n_p, n_z>>
f_a    == <<n_p, n_a_py>>
f_c    == <<n_p, n_nm, n_c_py>>
f_x    == <<n_p, n_r, n_x_t_py>>
f_E    == <<n_p, n_r, n_E_PY>>
f_dot  == <<n_p, n_r, n_dotpy>>
f_d    == <<n_p, n_r, n_d_py>>
f_g    == <<n_p, n_r, n_nm, n_g_py>>
f_h    == <<n_p, n_z, n_h_py>>
p_gone == <<n_p, n_gone>>

n_b == <<"b">>
d_b == <<n_b>>
Digit(k) == <<"0", "1", "2", "3", "4", "5", "6", "7", "8", "9">>[k + 1]
n_f(i) == <<"f", Digit((i \div 10) % 10), Digit(i % 10), ".", "p", "y">>
f_b(i) == <<n_b, n_f(i)>>

Dirs  == {d_p, d_nm, d_r, d_rnm, d_z, d_b}
Files == {f_a, f_c, f_x, f_E, f_dot, f_d, f_g, f_h} \cup {f_b(i) : i \in 1..MaxFiles}

\* os.scandir order of the entries of a directory (not sorted)
ListDirs(d) ==
    CASE d = d_p -> <<n_r, n_z, n_nm>>
      [] d = d_r -> <<n_nm>>
      [] OTHER  -> <<>>

ListFiles(d) ==
    CASE d = d_p   -> <<n_a_py>>
      [] d = d_nm  -> <<n_c_py>>
      [] d = d_r   -> <<n_x_t_py, n_E_PY, n_dotpy, n_d_py>>
      [] d = d_rnm -> <<n_g_py>>
      [] d = d_z   -> <<n_h_py>>
      [] d = d_b   -> [i \in 1..MaxFiles |-> n_f(i)]
      [] OTHER     -> <<>>

\* directories whose scandir raises PermissionError
Unlistable == {d_z}
\* files whose open/read raises
Unreadable == {f_E}

Content(f) ==
    CASE f = f_a -> <<"u", " ", "v">>
      [] f = f_d -> <<"w", "\n">>
      [] f = f_c -> <<"c">>
      [] f = f_g -> <<"g">>
      [] OTHER   -> <<"o">>

\* the repositories and what `git ls-files` prints in each
None == <<>>
Repos == {d_r}
TrackedFiles(repo) ==
    IF repo = d_r THEN {<<n_x_t_py>>, <<n_dotpy>>, <<n_d_py>>, <<n_nm, n_g_py>>}
    ELSE {}

(***************************************************************************)
(* os.path and str helpers.                                                *)
(***************************************************************************)
basename(path) == path[Len(path)]
dirname(path) == SubSeq(path, 1, Len(path) - 1)
join(root, name) == Append(root, name)
isfile(path) == path \in Files
isdir(path) == path \in Dirs

IsPrefix(a, b) == Len(a) <= Len(b) /\ SubSeq(b, 1, Len(a)) = a

\* the repository `git rev-parse --show-toplevel` finds from directory dir
RepoOf(dir) ==
    IF \E r \in Repos : IsPrefix(r, dir)
    THEN CHOOSE r \in Repos : IsPrefix(r, dir)
    ELSE None

lower_char(c) ==
    CASE c = "E" -> "e"
      [] c = "P" -> "p"
      [] c = "Y" -> "y"
      [] OTHER   -> c

lower(s) == [i \in 1..Len(s) |-> lower_char(s[i])]

\* the index of the last "." of s, 0 when there is none
RECURSIVE rfind_dot(_, _)
rfind_dot(s, i) ==
    IF i = 0 THEN 0
    ELSE IF s[i] = "." THEN i
    ELSE rfind_dot(s, i - 1)

\* genericpath._splitext on the final segment: the extension starts at the
\* last dot, unless only dots precede it
splitext_ext(name) ==
    LET dot == rfind_dot(name, Len(name)) IN
    IF dot > 0 /\ \E k \in 1..(dot - 1) : name[k] # "."
    THEN SubSeq(name, dot, Len(name))
    ELSE <<>>

\* fnmatch.fnmatch on POSIX (case-sensitive) for patterns of literals, "*"
\* and "?"  (the patterns of this model hold no bracket expression)
RECURSIVE fnmatch(_, _)
fnmatch(name, pat) ==
    IF pat = <<>> THEN name = <<>>
    ELSE IF Head(pat) = "*"
         THEN fnmatch(name, Tail(pat))
              \/ (name # <<>> /\ fnmatch(Tail(name), pat))
    ELSE IF name = <<>> THEN FALSE
    ELSE (Head(pat) = "?" \/ Head(pat) = Head(name))
         /\ fnmatch(Tail(name), Tail(pat))

\* os.path.relpath(path, start) for absolute normalised paths
RECURSIVE common_len(_, _)
common_len(a, b) ==
    IF a = <<>> \/ b = <<>> \/ Head(a) # Head(b) THEN 0
    ELSE 1 + common_len(Tail(a), Tail(b))

n_up == <<".", ".">>
n_cur == <<".">>

relpath(path, start) ==
    LET k == common_len(path, start)
        ups == [i \in 1..(Len(start) - k) |-> n_up]
        rel == ups \o SubSeq(path, k + 1, Len(path))
    IN IF rel = <<>> THEN <<n_cur>> ELSE rel

SeqToSet(s) == {s[i] : i \in 1..Len(s)}

(***************************************************************************)
(* State.                                                                  *)
(*   threads[w]  the FileConcatenatorThread objects, by construction order *)
(*   inbox       the queued signals not yet delivered to the GUI thread    *)
(*   app         the ConcatenatorApp widget state                          *)
(***************************************************************************)
VARIABLES threads, inbox, app

vars == <<threads, inbox, app>>

Threads == 1..MaxRuns

\* request text used by the model: one directory-ignore name, one filename
\* ignore pattern, one extension
pat_t_py == <<"*", ".", "t", ".", "p", "y">>
ext_py == <<".", "p", "y">>

\* a thread object that was not constructed yet
NoThread ==
    [pc |-> "none",
     selected_paths |-> <<>>, git_tracked |-> FALSE,
     directory_ignore_patterns |-> <<>>, file_ignore_patterns |-> <<>>,
     include_extensions |-> {}, is_cancelled |-> FALSE,
     repo_roots |-> <<>>, tracked_files_cache |-> <<>>,
     all_files |-> <<>>, path_i |-> 1, stack |-> <<>>, top |-> <<>>,
     files |-> <<>>, index |-> 1, total_files |-> 0,
     concatenated_text |-> <<>>, error_list |-> <<>>,
     copy_to_clipboard |-> FALSE, save_to_file |-> FALSE,
     events |-> <<>>, vcs_calls |-> <<>>]

\* mutant: the two caches are class attributes, shared by the thread objects
NewThread_shared_caches(selected_paths, git_tracked, dir_ignores, file_ignores, exts, copy, save) ==
    [NoThread EXCEPT
        !.pc = "roots",
        !.selected_paths = selected_paths,
        !.git_tracked = git_tracked,
        !.directory_ignore_patterns = dir_ignores,
        !.file_ignore_patterns = file_ignores,
        !.include_extensions = {lower(e) : e \in exts},
        !.copy_to_clipboard = copy,
        !.save_to_file = save,
        !.repo_roots = IF app.thread = 0 THEN <<>> ELSE threads[app.thread].repo_roots,
        !.tracked_files_cache =
            IF app.thread = 0 THEN <<>> ELSE threads[app.thread].tracked_files_cache]

\* FileConcatenatorThread.__init__ followed by start()
NewThread(selected_paths, git_tracked, dir_ignores, file_ignores, exts, copy, save) ==
    [NoThread EXCEPT
        !.pc = "roots",
        !.selected_paths = selected_paths,
        !.git_tracked = git_tracked,
        !.directory_ignore_patterns = dir_ignores,
        !.file_ignore_patterns = file_ignores,
        !.include_extensions = {lower(e) : e \in exts},
        !.copy_to_clipboard = copy,
        !.save_to_file = save]

isRunning(t) == t.pc \in {"roots", "walk", "files", "concat"}

(***************************************************************************)
(* Signals.  A signal emitted by the worker is recorded in the thread's    *)
(* own history (events) and queued for the GUI thread (inbox).             *)
(***************************************************************************)
Signal(sig, arg) == [sig |-> sig, arg |-> arg]

Emit(t, sig, arg) == [t EXCEPT !.events = Append(@, Signal(sig, arg))]

\* the signals t2 emitted beyond those of t, addressed from thread w; a
\* message carries the two flags the lambda connected to
\* finished_successfully captured
Posted(w, t, t2) ==
    [i \in 1..(Len(t2.events) - Len(t.events)) |->
        [from |-> w, sig |-> t2.events[Len(t.events) + i].sig,
         arg |-> t2.events[Len(t.events) + i].arg,
         copy_to_clipboard |-> t.copy_to_clipboard,
         save_to_file |-> t.save_to_file]]

(***************************************************************************)
(* Rule evaluation.                                                        *)
(***************************************************************************)
\* mutant: an empty set admits every file
is_included_file_empty_is_all(t, filepath) ==
    \/ t.include_extensions = {}
    \/ lower(splitext_ext(basename(filepath))) \in t.include_extensions

is_included_file(t, filepath) ==
    lower(splitext_ext(basename(filepath))) \in t.include_extensions

is_ignored_file(t, filepath) ==
    \E i \in 1..Len(t.file_ignore_patterns) :
        fnmatch(basename(filepath), t.file_ignore_patterns[i])

(***************************************************************************)
(* Git.  Every subprocess.run is recorded in vcs_calls with its outcome:   *)
(*   "ok"       exit status 0                                              *)
(*   "nonzero"  another exit status                                        *)
(*   "timeout"  subprocess.TimeoutExpired                                  *)
(*   "oserror"  subprocess.run raised (git missing, cwd gone)              *)
(***************************************************************************)
VcsCall(t, cmd, cwd, key, rc) ==
    [t EXCEPT !.vcs_calls = Append(@, [cmd |-> cmd, cwd |-> cwd, key |-> key, rc |-> rc])]

IsFailure(c) ==
    c.rc \in {"timeout", "oserror"} \/ (c.cmd = "ls-files" /\ c.rc = "nonzero")

VcsFailures(t) ==
    Cardinality({i \in 1..Len(t.vcs_calls) : IsFailure(t.vcs_calls[i])})

InMap(k, f) == k \in DOMAIN f

\* mutant: a non-zero exit of rev-parse is reported like a time-out
get_git_repo_root_reports_nonzero(t, filepath, rp) ==
    IF InMap(filepath, t.repo_roots)
    THEN [t |-> t, ret |-> t.repo_roots[filepath], raised |-> FALSE]
    ELSE LET t1 == VcsCall(t, "rev-parse", dirname(filepath), filepath, rp) IN
         CASE rp = "oserror" ->
                [t |-> t1, ret |-> None, raised |-> TRUE]
           [] rp = "ok" ->
                [t |-> [t1 EXCEPT !.repo_roots =
                                    @ @@ (filepath :> RepoOf(dirname(filepath)))],
                 ret |-> RepoOf(dirname(filepath)), raised |-> FALSE]
           [] OTHER ->
                [t |-> Emit(t1, "error_occurred", <<"root_failed", filepath>>),
                 ret |-> None, raised |-> FALSE]

\* lines 199-231: the cache is keyed by the file path; a failure stores nothing
get_git_repo_root(t, filepath, rp) ==
    IF InMap(filepath, t.repo_roots)
    THEN [t |-> t, ret |-> t.repo_roots[filepath], raised |-> FALSE]
    ELSE LET t1 == VcsCall(t, "rev-parse", dirname(filepath), filepath, rp) IN
         CASE rp = "oserror" ->
                [t |-> t1, ret |-> None, raised |-> TRUE]
           [] rp = "timeout" ->
                [t |-> Emit(t1, "error_occurred", <<"root_timeout", filepath>>),
                 ret |-> None, raised |-> FALSE]
           [] rp = "ok" ->
                [t |-> [t1 EXCEPT !.repo_roots =
                                    @ @@ (filepath :> RepoOf(dirname(filepath)))],
                 ret |-> RepoOf(dirname(filepath)), raised |-> FALSE]
           [] OTHER ->
                [t |-> t1, ret |-> None, raised |-> FALSE]

\* lines 153-192: the tracked-set cache and `git ls-files`
tracked_in_repo(t, filepath, repo_root, ls) ==
    IF InMap(repo_root, t.tracked_files_cache)
    THEN [t |-> t,
          ret |-> relpath(filepath, repo_root) \in t.tracked_files_cache[repo_root],
          raised |-> FALSE]
    ELSE LET t1 == VcsCall(t, "ls-files", repo_root, repo_root, ls) IN
         CASE ls = "timeout" ->
                [t |-> Emit(t1, "error_occurred", <<"ls_timeout", repo_root>>),
                 ret |-> FALSE, raised |-> FALSE]
           [] ls = "oserror" ->
                [t |-> Emit(t1, "error_occurred", <<"git_exception", filepath>>),
                 ret |-> FALSE, raised |-> FALSE]
           [] ls = "ok" ->
                [t |-> [t1 EXCEPT !.tracked_files_cache =
                                    @ @@ (repo_root :> TrackedFiles(repo_root))],
                 ret |-> relpath(filepath, repo_root) \in TrackedFiles(repo_root),
                 raised |-> FALSE]
           [] OTHER ->
                [t |-> Emit(t1, "error_occurred", <<"ls_nonzero", repo_root>>),
                 ret |-> FALSE, raised |-> FALSE]

\* mutant: without the outer `except Exception`, an exception of
\* subprocess.run in get_git_repo_root leaves is_git_tracked
is_git_tracked_uncaught(t, filepath, rp, ls) ==
    LET g == get_git_repo_root(t, filepath, rp) IN
    IF g.raised
    THEN [t |-> g.t, ret |-> FALSE, raised |-> TRUE]
    ELSE IF g.ret = None
    THEN [t |-> g.t, ret |-> FALSE, raised |-> FALSE]
    ELSE tracked_in_repo(g.t, filepath, g.ret, ls)

\* the except clauses of is_git_tracked catch every exception, so nothing
\* is raised to its caller
is_git_tracked(t, filepath, rp, ls) ==
    LET g == get_git_repo_root(t, filepath, rp)
        repo_root == g.ret
    IN
    IF g.raised
    THEN [t |-> Emit(g.t, "error_occurred", <<"git_exception", filepath>>),
          ret |-> FALSE, raised |-> FALSE]
    ELSE IF repo_root = None
    THEN [t |-> g.t, ret |-> FALSE, raised |-> FALSE]
    ELSE tracked_in_repo(g.t, filepath, repo_root, ls)

\* what the environment may answer to the git commands a test of filepath runs
RevParseOutcomes(t, filepath) ==
    IF ~(t.git_tracked /\ is_included_file(t, filepath) /\ ~is_ignored_file(t, filepath))
       \/ InMap(filepath, t.repo_roots)
    THEN {"none"}
    ELSE {IF RepoOf(dirname(filepath)) = None THEN "nonzero" ELSE "ok"}
         \cup (IF VcsFailures(t) < MaxVcsFailures THEN {"timeout", "oserror"} ELSE {})

LsFilesOutcomes(t, filepath, rp) ==
    LET g == get_git_repo_root(t, filepath, rp) IN
    IF ~(t.git_tracked /\ is_included_file(t, filepath) /\ ~is_ignored_file(t, filepath))
       \/ g.raised \/ g.ret = None \/ InMap(g.ret, g.t.tracked_files_cache)
    THEN {"none"}
    ELSE {"ok"}
         \cup (IF VcsFailures(g.t) < MaxVcsFailures
               THEN {"timeout", "oserror", "nonzero"} ELSE {})

(***************************************************************************)
(* FileConcatenatorThread.run, one definition per loop iteration.  Each    *)
(* iteration starts at a read of the cancel flag.                          *)
(***************************************************************************)
cancelled_return(t) ==
    [Emit(t, "status_update", <<"cancelled">>) EXCEPT !.pc = "finished"]

\* mutant: the exception is reported where it occurs and the loop goes on
unexpected_error_continues(t, e) ==
    Emit(t, "error_occurred", <<"unexpected", e>>)

\* the handler of `except Exception` around the whole of run
unexpected_error(t, e) ==
    [Emit(t, "error_occurred", <<"unexpected", e>>) EXCEPT !.pc = "finished"]

\* mutant: the answer of is_git_tracked is not consulted
test_file_ignores_tracked(t, file_path, rp, ls) ==
    IF is_included_file(t, file_path) /\ ~is_ignored_file(t, file_path)
    THEN IF t.git_tracked
         THEN LET r == is_git_tracked(t, file_path, rp, ls) IN
              [r.t EXCEPT !.all_files = Append(@, file_path)]
         ELSE [t EXCEPT !.all_files = Append(@, file_path)]
    ELSE t

\* the filters and the append, for a file root and for a file of the walk;
\* an exception leaving is_git_tracked would end run in its except clause
test_file(t, file_path, rp, ls) ==
    IF is_included_file(t, file_path) /\ ~is_ignored_file(t, file_path)
    THEN IF t.git_tracked
         THEN LET r == is_git_tracked(t, file_path, rp, ls) IN
              IF r.raised THEN unexpected_error(r.t, "git")
              ELSE IF r.ret
              THEN [r.t EXCEPT !.all_files = Append(@, file_path)]
              ELSE r.t
         ELSE [t EXCEPT !.all_files = Append(@, file_path)]
    ELSE t

\* the loop variables advance unless run has ended
advance_root(t) ==
    IF t.pc = "finished" THEN t ELSE [t EXCEPT !.path_i = @ + 1]

advance_file(t) ==
    IF t.pc = "finished" THEN t
    ELSE [t EXCEPT !.files = Tail(@),
                   !.pc = IF Tail(t.files) = <<>> THEN "walk" ELSE "files"]

\* one iteration of `for path in self.selected_paths`
\* mutant: a root that is no file and no directory ends the run in the
\* except clause
skip_root_raises(t) == unexpected_error(t, "missing")

\* neither branch of `if os.path.isfile(path): ... elif os.path.isdir(path):`
\* is taken
skip_root(t) == [t EXCEPT !.path_i = @ + 1]

\* mutant: the roots are taken from the last to the first
root_iteration_last_first(t, rp, ls) ==
    LET path == t.selected_paths[Len(t.selected_paths) + 1 - t.path_i] IN
    IF t.is_cancelled THEN cancelled_return(t)
    ELSE IF isfile(path)
    THEN advance_root(test_file(t, path, rp, ls))
    ELSE IF isdir(path)
    THEN [t EXCEPT !.pc = "walk", !.stack = <<path>>]
    ELSE [t EXCEPT !.path_i = @ + 1]

root_iteration(t, rp, ls) ==
    LET path == t.selected_paths[t.path_i] IN
    IF t.is_cancelled THEN cancelled_return(t)
    ELSE IF isfile(path)
    THEN advance_root(test_file(t, path, rp, ls))
    ELSE IF isdir(path)
    THEN [t EXCEPT !.pc = "walk", !.stack = <<path>>]
    ELSE skip_root(t)

\* mutant: a directory that cannot be listed is listed all the same
skip_unlistable_listed(stack) == stack

\* os.walk drops a directory whose scandir fails (onerror is None)
RECURSIVE skip_unlistable(_)
skip_unlistable(stack) ==
    IF stack = <<>> THEN <<>>
    ELSE IF Head(stack) \in Unlistable \/ ~isdir(Head(stack))
    THEN skip_unlistable(Tail(stack))
    ELSE stack

\* mutant: dirs is left as listed
prune_nothing(t, dirs) == dirs

\* dirs[:] = [d for d in dirs if d not in self.directory_ignore_patterns]
prune(t, dirs) ==
    SelectSeq(dirs, LAMBDA d : d \notin SeqToSet(t.directory_ignore_patterns))

\* the generator's next directory and the body of
\* `for root, dirs, files in os.walk(path, topdown=True)` up to its file loop
walk_iteration(t) ==
    LET s == skip_unlistable(t.stack) IN
    IF s = <<>>
    THEN [t EXCEPT !.pc = "roots", !.path_i = @ + 1, !.stack = <<>>,
                   !.top = <<>>, !.files = <<>>]
    ELSE IF t.is_cancelled THEN cancelled_return(t)
    ELSE LET root == Head(s)
             dirs == prune(t, ListDirs(root))
             files == ListFiles(root)
         IN [t EXCEPT !.top = root,
                      !.stack = [i \in 1..Len(dirs) |-> join(root, dirs[i])] \o Tail(s),
                      !.files = files,
                      !.pc = IF files = <<>> THEN "walk" ELSE "files"]

\* one iteration of `for file in files`
file_iteration(t, rp, ls) ==
    IF t.is_cancelled THEN cancelled_return(t)
    ELSE advance_file(test_file(t, join(t.top, Head(t.files)), rp, ls))

\* mutant: the count is not tested
discovered_unchecked(t) ==
    [Emit(t, "status_update", <<"starting">>) EXCEPT
        !.pc = "concat", !.total_files = Len(t.all_files), !.index = 1,
        !.concatenated_text = <<>>, !.error_list = <<>>]

\* after the root loop: the count and the empty result
discovered(t) ==
    IF Len(t.all_files) = 0
    THEN [Emit(t, "error_occurred", <<"no_files">>) EXCEPT !.pc = "finished"]
    ELSE [Emit(t, "status_update", <<"starting">>) EXCEPT
            !.pc = "concat", !.total_files = Len(t.all_files), !.index = 1,
            !.concatenated_text = <<>>, !.error_list = <<>>]

\* the segments of a path joined by os.sep
RECURSIVE path_text(_)
path_text(path) ==
    IF Len(path) = 1 THEN path[1]
    ELSE path_text(SubSeq(path, 1, Len(path) - 1)) \o <<"/">> \o path[Len(path)]

\* mutant: the header names the whole path
header_full_path(file_path) ==
    <<"=", "=", "=", " ">> \o path_text(file_path) \o <<" ", "=", "=", "=", "\n">>

header(file_path) ==
    <<"=", "=", "=", " ">> \o basename(file_path) \o <<" ", "=", "=", "=", "\n">>

(***************************************************************************)
(* int((index / total_files) * 100) in IEEE 754 binary64, round to nearest *)
(* even.  A positive double is [m, e]: m its 53 significand bits, most     *)
(* significant (always 1) first, e the exponent of that first bit.         *)
(***************************************************************************)
SignificandBits == 53

Front(b) == SubSeq(b, 1, Len(b) - 1)

\* the first n bits of the binary expansion of r / d, for 0 <= r < d
RECURSIVE frac_bits(_, _, _)
frac_bits(r, d, n) ==
    IF n = 0 THEN <<>>
    ELSE <<(2 * r) \div d>> \o frac_bits((2 * r) % d, d, n - 1)

\* the remainder left after those n bits
RECURSIVE frac_rem(_, _, _)
frac_rem(r, d, n) ==
    IF n = 0 \/ r = 0 THEN r ELSE frac_rem((2 * r) % d, d, n - 1)

\* the position of the first 1 of the expansion of r / d, for 0 < r < d
RECURSIVE first_one(_, _)
first_one(r, d) == IF 2 * r >= d THEN 1 ELSE 1 + first_one(2 * r, d)

RECURSIVE inc_bits(_)
inc_bits(b) ==
    IF b = <<>> THEN <<1>>
    ELSE IF b[Len(b)] = 0 THEN Front(b) \o <<1>>
    ELSE inc_bits(Front(b)) \o <<0>>

RECURSIVE to_bits(_)
to_bits(n) == IF n = 0 THEN <<>> ELSE to_bits(n \div 2) \o <<n % 2>>

RECURSIVE from_bits(_)
from_bits(b) == IF b = <<>> THEN 0 ELSE 2 * from_bits(Front(b)) + b[Len(b)]

\* bits 1..i of b times the small integer c, plus the carry coming from
\* the bits to their right
RECURSIVE mul_bits(_, _, _, _)
mul_bits(b, i, c, carry) ==
    IF i = 0 THEN to_bits(carry)
    ELSE LET v == b[i] * c + carry IN
         IF v % 2 = 0
         THEN mul_bits(b, i - 1, c, v \div 2) \o <<0>>
         ELSE mul_bits(b, i - 1, c, v \div 2) \o <<1>>

\* the double nearest to the exact value with bits b (first bit 1, of
\* exponent e) followed by a non-zero tail when sticky
float_round(b, e, sticky) ==
    IF Len(b) <= SignificandBits
    THEN [m |-> b \o [i \in 1..(SignificandBits - Len(b)) |-> 0], e |-> e]
    ELSE LET keep == SubSeq(b, 1, SignificandBits)
             tail == sticky \/ \E i \in (SignificandBits + 2)..Len(b) : b[i] = 1
             up == b[SignificandBits + 1] = 1 /\ (tail \/ keep[SignificandBits] = 1)
             r == IF up THEN inc_bits(keep) ELSE keep
         IN IF Len(r) > SignificandBits
            THEN [m |-> SubSeq(r, 1, SignificandBits), e |-> e + 1]
            ELSE [m |-> r, e |-> e]

\* index / total_files (true division of two ints), 1 <= index <= total_files
float_div(index, total_files) ==
    IF index = total_files THEN float_round(<<1>>, 0, FALSE)
    ELSE LET k == first_one(index, total_files)
             n == k + SignificandBits
         IN float_round(SubSeq(frac_bits(index, total_files, n), k, n), 0 - k,
                        frac_rem(index, total_files, n) # 0)

\* x * 100
float_mul(x, c) ==
    LET prod == mul_bits(x.m, Len(x.m), c, 0) IN
    float_round(prod, x.e + (Len(prod) - SignificandBits), FALSE)

\* int(x): truncation toward zero
float_int(x) == IF x.e < 0 THEN 0 ELSE from_bits(SubSeq(x.m, 1, x.e + 1))

progress_percent(index, total_files) ==
    float_int(float_mul(float_div(index, total_files), 100))

\* mutant: the read is not guarded by the per-file except clause
read_and_append_uncaught(t) ==
    LET file_path == t.all_files[t.index] IN
    IF file_path \in Unreadable \/ ~isfile(file_path)
    THEN unexpected_error(t, "read")
    ELSE LET t1 == [t EXCEPT !.concatenated_text =
                        @ \o header(file_path) \o Content(file_path) \o <<"\n", "\n">>]
             t2 == Emit(t1, "progress_update",
                        <<progress_percent(t.index, t.total_files), basename(file_path)>>)
             t3 == Emit(t2, "status_update",
                        <<"processing", basename(file_path), t.index, t.total_files>>)
         IN [t3 EXCEPT !.index = @ + 1]

\* the try block of the concatenation loop, with its progress report
read_and_append(t) ==
    LET file_path == t.all_files[t.index] IN
    IF file_path \in Unreadable \/ ~isfile(file_path)
    THEN [t EXCEPT !.error_list = Append(@, <<"Error reading", file_path>>),
                   !.index = @ + 1]
    ELSE LET t1 == [t EXCEPT !.concatenated_text =
                        @ \o header(file_path) \o Content(file_path) \o <<"\n", "\n">>]
             t2 == Emit(t1, "progress_update",
                        <<progress_percent(t.index, t.total_files), basename(file_path)>>)
             t3 == Emit(t2, "status_update",
                        <<"processing", basename(file_path), t.index, t.total_files>>)
         IN [t3 EXCEPT !.index = @ + 1]

\* mutant: the cancel flag is not read in the concatenation loop
concat_iteration_unchecked(t) == read_and_append(t)

\* one iteration of `for index, file_path in enumerate(all_files, start=1)`
concat_iteration(t) ==
    IF t.is_cancelled THEN cancelled_return(t) ELSE read_and_append(t)

\* mutant: the list of the success event leaves out the files not read
completed_only_read(t) ==
    LET t1 == Emit(t, "status_update", <<"completed">>) IN
    [Emit(t1, "finished_successfully",
          <<t.concatenated_text,
            SelectSeq(t.all_files, LAMBDA f : f \notin Unreadable),
            t.error_list>>)
       EXCEPT !.pc = "finished"]

\* after the concatenation loop
completed(t) ==
    LET t1 == Emit(t, "status_update", <<"completed">>) IN
    [Emit(t1, "finished_successfully",
          <<t.concatenated_text, t.all_files, t.error_list>>)
       EXCEPT !.pc = "finished"]

\* the git answers the environment may give while file_path is tested
GitChoices(t, file_path) ==
    UNION {{<<rp, ls>> : ls \in LsFilesOutcomes(t, file_path, rp)} :
               rp \in RevParseOutcomes(t, file_path)}

Commit(w, t2) ==
    /\ ~app.closed
    /\ threads' = [threads EXCEPT ![w] = t2]
    /\ inbox' = inbox \o Posted(w, threads[w], t2)
    /\ UNCHANGED app

run_root_loop(w) ==
    LET t == threads[w] IN
    /\ t.pc = "roots"
    /\ t.path_i <= Len(t.selected_paths)
    /\ \E c \in (IF ~t.is_cancelled /\ isfile(t.selected_paths[t.path_i])
                 THEN GitChoices(t, t.selected_paths[t.path_i])
                 ELSE {<<"none", "none">>}) :
          Commit(w, root_iteration(t, c[1], c[2]))

run_walk_loop(w) ==
    LET t == threads[w] IN
    /\ t.pc = "walk"
    /\ Commit(w, walk_iteration(t))

run_file_loop(w) ==
    LET t == threads[w] IN
    /\ t.pc = "files"
    /\ \E c \in (IF ~t.is_cancelled
                 THEN GitChoices(t, join(t.top, Head(t.files)))
                 ELSE {<<"none", "none">>}) :
          Commit(w, file_iteration(t, c[1], c[2]))

run_discovered(w) ==
    LET t == threads[w] IN
    /\ t.pc = "roots"
    /\ t.path_i > Len(t.selected_paths)
    /\ Commit(w, discovered(t))

run_concat_loop(w) ==
    LET t == threads[w] IN
    /\ t.pc = "concat"
    /\ t.index <= t.total_files
    /\ Commit(w, concat_iteration(t))

run_completed(w) ==
    LET t == threads[w] IN
    /\ t.pc = "concat"
    /\ t.index > t.total_files
    /\ Commit(w, completed(t))

run_unexpected_error(w) ==
    LET t == threads[w] IN
    /\ isRunning(t)
    /\ Commit(w, unexpected_error(t, "fault"))

(***************************************************************************)
(* ConcatenatorApp: the widgets the handlers read and write.               *)
(***************************************************************************)
\* the items loaded in the tree widget, in the order collect_checked visits
\* them (the tree was expanded before "nm" joined the ignore list)
TreeItems == <<d_p, d_r, f_d, d_nm, f_c, p_gone, f_a>>

\* the tree after the directory "b" was opened, collapsed
TreeItemsB == <<d_b>>

\* the items of the tree widget as it stands: a directory opened with the
\* dialog shows its collapsed root item
tree_items(a) ==
    IF a.selected_directory = d_b THEN TreeItemsB
    ELSE IF a.selected_directory = d_p THEN TreeItems
    ELSE <<a.selected_directory>>

get_selected_paths(a) ==
    SelectSeq(tree_items(a), LAMBDA x : x \in a.checked)

\* self.thread.isRunning(), guarded by hasattr(self, 'thread')
thread_running(a) == a.thread # 0 /\ isRunning(threads[a.thread])

toggle_ui(a, enabled) == [a EXCEPT !.ui_enabled = enabled]

\* nothing was written yet; output_writable tells whether open(
\* self.output_file_path, 'w') succeeds, edits counts the edits the user
\* made to the request, clipboard_writes and file_writes the calls of
\* clipboard.setText and outfile.write
NoOutput == <<>>

\* what the "Success" message box shows; nothing was shown yet
NoCounts == [word_count |-> 0, char_count |-> 0, total_length |-> 0]

AppInit(checked, git_tracked, filetypes, mode) ==
    [thread |-> 0, ui_enabled |-> TRUE, cancel_enabled |-> FALSE,
     closed |-> FALSE,
     status_label |-> <<"ready">>, progress_bar |-> 0, error_log |-> <<>>,
     checked |-> checked, git_tracked_radio |-> git_tracked,
     ignore_dir_list |-> <<n_nm>>, ignore_file_list |-> <<pat_t_py>>,
     selected_filetypes |-> filetypes, output_mode |-> mode,
     selected_directory |-> d_p, runs |-> 0,
     clipboard |-> NoOutput, output_file |-> NoOutput,
     success_box |-> NoCounts, preview_text |-> NoOutput,
     output_writable |-> TRUE, edits |-> 0,
     clipboard_writes |-> 0, file_writes |-> 0]

\* A thread object lives while something refers to it: self.thread, or the
\* frame of its own run().  Assigning self.thread drops the objects that
\* are no longer running.
Live(ts) == {w \in Threads : isRunning(ts[w])}

Collected(ts) == [w \in Threads |-> IF isRunning(ts[w]) THEN ts[w] ELSE NoThread]

\* the Generate button; output_file_path is never empty, so the second
\* early return cannot be taken
generate_concatenation ==
    LET selected_paths == get_selected_paths(app)
        copy_to_clipboard == app.output_mode \in {"clipboard", "both"}
        save_to_file == app.output_mode \in {"file", "both"}
        free == Threads \ Live(threads)
    IN
    /\ app.ui_enabled /\ ~app.closed
    /\ app.runs < MaxRuns
    /\ IF selected_paths = <<>> \/ (app.selected_filetypes = {} /\ save_to_file)
       THEN UNCHANGED vars
       ELSE LET w == CHOOSE x \in free : \A y \in free : x <= y IN
            /\ threads' = [Collected(threads) EXCEPT ![w] =
                    NewThread(selected_paths, app.git_tracked_radio,
                              app.ignore_dir_list, app.ignore_file_list,
                              app.selected_filetypes, copy_to_clipboard, save_to_file)]
            /\ app' = [toggle_ui(app, FALSE) EXCEPT
                    !.progress_bar = 0, !.status_label = <<"starting">>,
                    !.error_log = <<>>, !.thread = w, !.cancel_enabled = TRUE,
                    !.runs = @ + 1]
            /\ UNCHANGED inbox

\* FileConcatenatorThread.cancel
cancel(t) == [t EXCEPT !.is_cancelled = TRUE]

\* the Cancel button
cancel_concatenation ==
    /\ app.cancel_enabled /\ ~app.closed
    /\ IF thread_running(app)
       THEN /\ threads' = [threads EXCEPT ![app.thread] = cancel(@)]
            /\ app' = [app EXCEPT !.status_label = <<"cancelling">>,
                                  !.cancel_enabled = FALSE]
            /\ UNCHANGED inbox
       ELSE UNCHANGED vars

(***************************************************************************)
(* Slots, run in the GUI thread for the signal at the head of the queue.   *)
(***************************************************************************)
update_progress(a, value, current_file) ==
    [a EXCEPT !.progress_bar = value,
              !.status_label = <<"processing", current_file, value>>]

update_status(a, message) == [a EXCEPT !.status_label = message]

\* mutant: the slot puts the message on the clipboard
handle_error_copies(a, error_message) ==
    [toggle_ui([a EXCEPT !.error_log = Append(@, error_message)], TRUE) EXCEPT
        !.status_label = <<"error">>, !.cancel_enabled = FALSE,
        !.clipboard = <<error_message>>, !.clipboard_writes = @ + 1]

handle_error(a, error_message) ==
    [toggle_ui([a EXCEPT !.error_log = Append(@, error_message)], TRUE) EXCEPT
        !.status_label = <<"error">>, !.cancel_enabled = FALSE]

(***************************************************************************)
(* generate_file_tree.  The nested dict is held as the set of its key      *)
(* paths: dirs the keys bound to a dict, files the keys bound to None.     *)
(* The paths of one file system never name a file where another path has   *)
(* a directory, so setdefault never meets None.                            *)
(***************************************************************************)
\* the characters of the names of this model, by code point
CodePoints ==
    <<".", "0", "1", "2", "3", "4", "5", "6", "7", "8", "9", "E", "P", "Y",
      "a", "b", "c", "d", "e", "f", "g", "h", "m", "n", "o", "p", "r", "t",
      "x", "y", "z">>

ord(c) == CHOOSE i \in 1..Len(CodePoints) : CodePoints[i] = c

\* str.__lt__
str_lt(x, y) ==
    \E k \in 1..(Len(y)) :
        /\ \A i \in 1..(k - 1) : i <= Len(x) /\ x[i] = y[i]
        /\ k - 1 <= Len(x)
        /\ (k > Len(x) \/ ord(x[k]) < ord(y[k]))

\* mutant: the keys are taken from the greatest down
RECURSIVE sorted_descending(_)
sorted_descending(keys) ==
    IF keys = {} THEN <<>>
    ELSE LET most == CHOOSE x \in keys : \A y \in keys \ {x} : str_lt(y, x)
         IN <<most>> \o sorted_descending(keys \ {most})

\* sorted(keys)
RECURSIVE sorted(_)
sorted(keys) ==
    IF keys = {} THEN <<>>
    ELSE LET least == CHOOSE x \in keys : \A y \in keys \ {x} : str_lt(x, y)
         IN <<least>> \o sorted(keys \ {least})

EmptyTree == [dirs |-> {}, files |-> {}]

\* os.path.relpath raises ValueError only on Windows (paths on two drives)
relpath_raises(path, start) == FALSE

\* the body of `for file_path in files`
tree_insert(tree, file_path, selected_directory) ==
    IF relpath_raises(file_path, selected_directory)
    THEN [tree EXCEPT !.files = @ \cup {<<basename(file_path)>>}]
    ELSE LET parts == relpath(file_path, selected_directory) IN
         [dirs |-> tree.dirs \cup {SubSeq(parts, 1, k) : k \in 1..(Len(parts) - 1)},
          files |-> tree.files \cup {parts}]

RECURSIVE build_tree(_, _, _)
build_tree(files, n, selected_directory) ==
    IF n = 0 THEN EmptyTree
    ELSE tree_insert(build_tree(files, n - 1, selected_directory), files[n],
                     selected_directory)

\* d.keys() of the dict at key path node
keys(tree, node) ==
    {q[Len(q)] : q \in {q \in tree.dirs \cup tree.files :
                           Len(q) = Len(node) + 1 /\ IsPrefix(node, q)}}

\* mutant: the line is not indented
tree_line_flat(key, indent) == <<"-", " ">> \o key \o <<"\n">>

tree_line(key, indent) ==
    [i \in 1..(4 * indent) |-> " "] \o <<"-", " ">> \o key \o <<"\n">>

\* traverse(d, indent), the loop over sorted(d.keys()) unrolled over ks
RECURSIVE traverse_keys(_, _, _, _)
traverse_keys(tree, node, indent, ks) ==
    IF ks = <<>> THEN <<>>
    ELSE LET key == Head(ks)
             below == IF Append(node, key) \in tree.dirs
                      THEN traverse_keys(tree, Append(node, key), indent + 1,
                                         sorted(keys(tree, Append(node, key))))
                      ELSE <<>>
         IN tree_line(key, indent) \o below
                \o traverse_keys(tree, node, indent, Tail(ks))

traverse(tree, node, indent) ==
    traverse_keys(tree, node, indent, sorted(keys(tree, node)))

generate_file_tree(files, selected_directory) ==
    traverse(build_tree(files, Len(files), selected_directory), <<>>, 0)

(***************************************************************************)
(* concatenation_finished.                                                 *)
(***************************************************************************)
\* "Output File Tree:\n"
TreeHeading ==
    <<"O", "u", "t", "p", "u", "t", " ", "F", "i", "l", "e", " ",
      "T", "r", "e", "e", ":", "\n">>

\* "\n\nConcatenated Contents:\n"
ContentsHeading ==
    <<"\n", "\n", "C", "o", "n", "c", "a", "t", "e", "n", "a", "t", "e", "d", " ",
      "C", "o", "n", "t", "e", "n", "t", "s", ":", "\n">>

Whitespace == {" ", "\n", "\t", "\r"}

\* final_output[:1000]
PreviewLimit == 1000

\* mutant: only the space separates tokens
split_count_on_spaces(text) ==
    Cardinality({i \in 1..Len(text) :
                    /\ text[i] # " "
                    /\ (i = 1 \/ text[i - 1] = " ")})

\* len(text.split())
split_count(text) ==
    Cardinality({i \in 1..Len(text) :
                    /\ text[i] \notin Whitespace
                    /\ (i = 1 \/ text[i - 1] \in Whitespace)})

concatenation_finished(a, concatenated_text, all_files, error_list, copy_to_clipboard, save_to_file) ==
    LET file_tree == generate_file_tree(all_files, a.selected_directory)
        final_output == TreeHeading \o file_tree \o ContentsHeading \o concatenated_text
        a1 == [a EXCEPT !.error_log =
                   IF error_list = <<>> THEN @ ELSE @ \o error_list]
        a2 == IF copy_to_clipboard
              THEN [a1 EXCEPT !.clipboard = final_output, !.clipboard_writes = @ + 1]
              ELSE a1
        a3 == IF ~save_to_file THEN a2
              ELSE IF ~a.output_writable
              THEN [a2 EXCEPT !.error_log = Append(@, <<"failed to save file">>)]
              ELSE [a2 EXCEPT !.output_file = final_output, !.file_writes = @ + 1,
                              !.success_box =
                                  [word_count |-> split_count(concatenated_text),
                                   char_count |-> Len(concatenated_text),
                                   total_length |-> Len(final_output)]]
    IN [toggle_ui(a3, TRUE) EXCEPT
          !.preview_text = IF Len(final_output) > PreviewLimit
                           THEN SubSeq(final_output, 1, PreviewLimit) \o <<".", ".", ".">>
                           ELSE final_output,
          !.status_label = IF error_list = <<>> THEN <<"completed">>
                           ELSE <<"completed with errors">>,
          !.cancel_enabled = FALSE]

Slot(a, m) ==
    CASE m.sig = "progress_update" -> update_progress(a, m.arg[1], m.arg[2])
      [] m.sig = "status_update" -> update_status(a, m.arg)
      [] m.sig = "error_occurred" -> handle_error(a, m.arg)
      [] OTHER -> concatenation_finished(a, m.arg[1], m.arg[2], m.arg[3],
                                         m.copy_to_clipboard, m.save_to_file)

deliver_signal ==
    /\ inbox # <<>> /\ ~app.closed
    /\ app' = Slot(app, Head(inbox))
    /\ inbox' = Tail(inbox)
    /\ UNCHANGED threads

\* the window is closed: a running self.thread is terminated and the
\* application leaves its event loop
closeEvent ==
    /\ ~app.closed
    /\ app' = [app EXCEPT !.closed = TRUE]
    /\ threads' = IF thread_running(app)
                  THEN [threads EXCEPT ![app.thread].pc = "terminated"]
                  ELSE threads
    /\ UNCHANGED inbox

(***************************************************************************)
(* The widgets the user edits a request with.                              *)
(***************************************************************************)
\* the directories the user picks in the "Select Root Directory" dialog
DialogDirectories == {d_r}

\* Ctrl+O: the QAction stays enabled whatever toggle_ui did; populate_tree
\* clears the tree and adds the unchecked, collapsed root item
select_directory ==
    /\ ~app.closed /\ app.edits < MaxEdits
    /\ \E directory \in DialogDirectories :
          app' = [app EXCEPT !.selected_directory = directory, !.checked = {},
                             !.edits = @ + 1]
    /\ UNCHANGED <<threads, inbox>>

\* the user clicks the check box of an item of the enabled tree; the slot
\* hands the state on to the children, whose itemChanged hands it further
handle_item_changed ==
    /\ app.ui_enabled /\ ~app.closed /\ app.edits < MaxEdits
    /\ \E item \in SeqToSet(tree_items(app)) :
          LET below == {x \in SeqToSet(tree_items(app)) : IsPrefix(item, x)}
              checked == IF item \in app.checked THEN app.checked \ below
                         ELSE app.checked \cup below
          IN /\ Cardinality(checked) <= MaxChecked
             /\ app' = [app EXCEPT !.checked = checked, !.edits = @ + 1]
    /\ UNCHANGED <<threads, inbox>>

\* mutant: the running thread was given the list object the slot edits
remove_ignore_directory_aliased ==
    /\ app.ui_enabled /\ ~app.closed /\ app.edits < MaxEdits
    /\ \E pattern \in SeqToSet(app.ignore_dir_list) :
          /\ app' = [app EXCEPT !.ignore_dir_list =
                        SelectSeq(@, LAMBDA x : x # pattern), !.edits = @ + 1]
          /\ threads' = [w \in Threads |->
                           IF isRunning(threads[w])
                           THEN [threads[w] EXCEPT !.directory_ignore_patterns =
                                    SelectSeq(@, LAMBDA x : x # pattern)]
                           ELSE threads[w]]
    /\ UNCHANGED inbox

\* "Remove Selected" with a row of the enabled ignore list selected; the
\* list the running thread was given is another object
remove_ignore_directory ==
    /\ app.ui_enabled /\ ~app.closed /\ app.edits < MaxEdits
    /\ \E pattern \in SeqToSet(app.ignore_dir_list) :
          app' = [app EXCEPT !.ignore_dir_list =
                     SelectSeq(@, LAMBDA x : x # pattern), !.edits = @ + 1]
    /\ UNCHANGED <<threads, inbox>>

(***************************************************************************)
(* Specifications.                                                         *)
(***************************************************************************)
CheckedSets == {c \in SUBSET SeqToSet(TreeItems) : Cardinality(c) \in 1..MaxChecked}

\* Spec: one run of the worker over every request the widgets can hold; the
\* GUI thread starts the run and may cancel it
Init ==
    /\ threads = [w \in Threads |-> NoThread]
    /\ inbox = <<>>
    /\ \E c \in CheckedSets, g \in BOOLEAN, x \in {{}, {ext_py}},
          i \in {<<n_nm>>, <<>>} :
          app = [AppInit(c, g, x, "clipboard") EXCEPT !.ignore_dir_list = i]

Next ==
    \/ generate_concatenation
    \/ cancel_concatenation
    \/ \E w \in Threads : run_root_loop(w)
    \/ \E w \in Threads : run_walk_loop(w)
    \/ \E w \in Threads : run_file_loop(w)
    \/ \E w \in Threads : run_discovered(w)
    \/ \E w \in Threads : run_concat_loop(w)
    \/ \E w \in Threads : run_completed(w)
    \/ \E w \in Threads : run_unexpected_error(w)

Spec == Init /\ [][Next]_vars

\* SpecApp: the application with its slots, over a few small requests
InitApp ==
    /\ threads = [w \in Threads |-> NoThread]
    /\ inbox = <<>>
    /\ \E c \in {{f_d}, {d_nm}}, g \in BOOLEAN,
          m \in {"clipboard", "both"} :
          app = AppInit(c, g, {ext_py}, m)

NextApp ==
    \/ Next
    \/ deliver_signal
    \/ closeEvent

SpecApp == InitApp /\ [][NextApp]_vars

\* SpecUi: the user edits the request with the widgets, before and during
\* the runs over all files, at most MaxEdits times; saving the output may
\* fail
InitUi ==
    /\ threads = [w \in Threads |-> NoThread]
    /\ inbox = <<>>
    /\ \E ok \in BOOLEAN :
          app = [AppInit({}, FALSE, {ext_py}, "both") EXCEPT !.output_writable = ok]

NextUi ==
    \/ generate_concatenation
    \/ select_directory
    \/ handle_item_changed
    \/ remove_ignore_directory
    \/ deliver_signal
    \/ \E w \in Threads : run_root_loop(w)
    \/ \E w \in Threads : run_walk_loop(w)
    \/ \E w \in Threads : run_file_loop(w)
    \/ \E w \in Threads : run_discovered(w)
    \/ \E w \in Threads : run_concat_loop(w)
    \/ \E w \in Threads : run_completed(w)
    \/ \E w \in Threads : run_unexpected_error(w)

SpecUi == InitUi /\ [][NextUi]_vars

\* SpecEdit: one tracked-only run over the directory p/r, the last one the
\* bound on the runs allows, during which the user edits the request (a git
\* failure re-enables the widgets in mid-run)
InitEdit ==
    /\ threads = [w \in Threads |-> NoThread]
    /\ inbox = <<>>
    /\ app = [AppInit({d_r}, TRUE, {ext_py}, "clipboard") EXCEPT !.runs = MaxRuns - 1]

NextEdit ==
    \/ generate_concatenation
    \/ select_directory
    \/ remove_ignore_directory
    \/ deliver_signal
    \/ \E w \in Threads : run_root_loop(w)
    \/ \E w \in Threads : run_walk_loop(w)
    \/ \E w \in Threads : run_file_loop(w)
    \/ \E w \in Threads : run_discovered(w)
    \/ \E w \in Threads : run_concat_loop(w)
    \/ \E w \in Threads : run_completed(w)
    \/ \E w \in Threads : run_unexpected_error(w)

SpecEdit == InitEdit /\ [][NextEdit]_vars

\* SpecProgress: one run over the directory "b" of MaxFiles files
InitProgress ==
    /\ threads = [w \in Threads |-> NoThread]
    /\ inbox = <<>>
    /\ app = [AppInit({d_b}, FALSE, {ext_py}, "clipboard") EXCEPT
                 !.selected_directory = d_b]

SpecProgress == InitProgress /\ [][Next]_vars

(***************************************************************************)
(* Properties.                                                             *)
(***************************************************************************)
Last(q) == q[Len(q)]

IsCancelledNote(e) == e.sig = "status_update" /\ e.arg = <<"cancelled">>

\* the signals the collaborator takes as the end of a run
IsTerminalEvent(e) ==
    e.sig \in {"finished_successfully", "error_occurred"} \/ IsCancelledNote(e)

\* the error signal of the fault the environment injects
IsFault(e) ==
    e.sig = "error_occurred" /\ e.arg[1] = "unexpected" /\ e.arg[2] = "fault"

IsNoFiles(e) == e.sig = "error_occurred" /\ e.arg[1] = "no_files"

Indices(q, P(_)) == {i \in 1..Len(q) : P(q[i])}

CountSig(t, sig) == Cardinality({i \in 1..Len(t.events) : t.events[i].sig = sig})

Calls(t, cmd) == {i \in 1..Len(t.vcs_calls) : t.vcs_calls[i].cmd = cmd}

\* C1: every run delivers exactly one terminal event (finished_successfully,
\* error_occurred or the cancellation note): never more than one while it
\* runs, exactly one once it has ended.
C1_ExactlyOneTerminalEvent ==
    \A w \in Threads :
        LET n == Cardinality(Indices(threads[w].events, IsTerminalEvent)) IN
        /\ n <= 1
        /\ threads[w].pc = "finished" => n = 1

\* C2: at most one worker run is active at any time, and the Generate
\* control is disabled while a worker runs.
C2_SingleActiveWorker ==
    /\ Cardinality(Live(threads)) <= 1
    /\ Live(threads) # {} => ~app.ui_enabled

\* C3: within one run `git ls-files` is invoked at most once per repository
\* root, whatever its outcomes.
C3_LsFilesOncePerRepo ==
    \A w \in Threads : \A repo \in Repos :
        Cardinality({i \in Calls(threads[w], "ls-files") :
                        threads[w].vcs_calls[i].cwd = repo}) <= 1

\* C4: within one run, once `git rev-parse --show-toplevel` has resolved the
\* root of a repository, no later invocation resolves the same repository
\* again: every other file of it is answered from the repo-root cache.
C4_RevParseOncePerRepo ==
    \A w \in Threads :
        \A i, j \in Calls(threads[w], "rev-parse") :
            (i < j /\ threads[w].vcs_calls[i].rc = "ok")
                => RepoOf(threads[w].vcs_calls[j].cwd)
                       # RepoOf(threads[w].vcs_calls[i].cwd)

\* C5: after `git rev-parse` exited non-zero or timed out for a key, the
\* negative result is cached: the same key is never resolved by a second
\* external invocation in the same run.
C5_NegativeResultCached ==
    \A w \in Threads :
        \A i, j \in Calls(threads[w], "rev-parse") :
            (i < j /\ threads[w].vcs_calls[i].rc \in {"nonzero", "timeout"})
                => threads[w].vcs_calls[j].key # threads[w].vcs_calls[i].key

\* C6: a step of the worker in which a git command fails (time-out, non-zero
\* exit of ls-files, git not startable) appends nothing, leaves the worker
\* running and moves it to the next file; and a run that has seen such a
\* failure ends in success exactly when a file was discovered, in "no files
\* found" exactly when none was.
C6_VcsFailureNonFatal ==
    [][\A w \in Threads :
          LET t == threads[w]
              t2 == threads'[w]
          IN
          /\ (isRunning(t) /\ VcsFailures(t2) > VcsFailures(t)) =>
                /\ isRunning(t2)
                /\ t2.all_files = t.all_files
                /\ \/ t2.path_i = t.path_i + 1
                   \/ t2.files = Tail(t.files)
          /\ (isRunning(t) /\ VcsFailures(t) > 0 /\ t2.pc = "finished"
              /\ ~IsCancelledNote(Last(t2.events))
              /\ ~IsFault(Last(t2.events))) =>
                IF t2.all_files # <<>>
                THEN Last(t2.events).sig = "finished_successfully"
                ELSE IsNoFiles(Last(t2.events))
      ]_vars

C6_Witness ==
    \E w \in Threads :
        /\ threads[w].pc = "finished"
        /\ VcsFailures(threads[w]) > 0
        /\ Last(threads[w].events).sig = "finished_successfully"

\* C7: with trackedOnly set, the test of a file for which `git rev-parse`
\* exits non-zero (no repository) appends nothing to the discovered list,
\* emits no signal and adds no error-list entry.
C7_NoRepoExcludedSilently ==
    [][\A w \in Threads :
          LET t == threads[w]
              t2 == threads'[w]
          IN
          (/\ isRunning(t)
           /\ Len(t2.vcs_calls) > Len(t.vcs_calls)
           /\ \E i \in (Len(t.vcs_calls) + 1)..Len(t2.vcs_calls) :
                 t2.vcs_calls[i].cmd = "rev-parse" /\ t2.vcs_calls[i].rc = "nonzero")
          => /\ t2.all_files = t.all_files
             /\ t2.events = t.events
             /\ t2.error_list = t.error_list
             /\ isRunning(t2)
      ]_vars

C7_Witness ==
    \E w \in Threads :
        /\ threads[w].git_tracked
        /\ \E i \in Calls(threads[w], "rev-parse") :
              /\ threads[w].vcs_calls[i].rc = "nonzero"
              /\ threads[w].vcs_calls[i].key = f_a
        /\ f_a \notin SeqToSet(threads[w].all_files)
        /\ f_d \in SeqToSet(threads[w].all_files)
        /\ CountSig(threads[w], "error_occurred") = 0
        /\ threads[w].pc = "finished"

\* the file is in a repository and `git ls-files` lists it there
TrackedInFact(f) ==
    /\ RepoOf(dirname(f)) # None
    /\ relpath(f, RepoOf(dirname(f))) \in TrackedFiles(RepoOf(dirname(f)))

\* C8: every path of the discovered list has a lower-cased extension in the
\* requested set, a base name no ignore pattern matches and, with
\* trackedOnly, is tracked in its repository.
C8_DiscoveredPassFilters ==
    \A w \in Threads :
        \A i \in 1..Len(threads[w].all_files) :
            LET f == threads[w].all_files[i] IN
            /\ lower(splitext_ext(basename(f))) \in threads[w].include_extensions
            /\ \A k \in 1..Len(threads[w].file_ignore_patterns) :
                  ~fnmatch(basename(f), threads[w].file_ignore_patterns[k])
            /\ threads[w].git_tracked => TrackedInFact(f)

C8_Witness ==
    \E w \in Threads :
        /\ threads[w].git_tracked
        /\ threads[w].selected_paths = <<d_r, f_d>>
        /\ threads[w].all_files = <<f_d, f_d>>
        /\ threads[w].pc = "concat"

IgnoredName(t, name) == name \in SeqToSet(t.directory_ignore_patterns)

\* no directory of path strictly below root has an ignored name
CleanBelow(t, root, path, last) ==
    /\ IsPrefix(root, path)
    /\ \A k \in (Len(root) + 1)..last : ~IgnoredName(t, path[k])

\* C9 as claimed: no discovered file has a directory with an ignored name
\* anywhere on its path, for every selection of roots.
C9_NoFileUnderIgnoredName ==
    \A w \in Threads :
        \A i \in 1..Len(threads[w].all_files) :
            LET f == threads[w].all_files[i] IN
            \A k \in 1..(Len(f) - 1) : ~IgnoredName(threads[w], f[k])

\* C9 as amended: a discovered file is either a selected file root or lies
\* under a selected directory root with no ignored directory name strictly
\* below that root on its path; the directory being listed is never inside
\* a pruned subtree, and every error-list entry names a discovered file.
C9_PrunedBelowDirectoryRoots ==
    \A w \in Threads :
        LET t == threads[w]
            roots == SeqToSet(t.selected_paths)
        IN
        /\ \A i \in 1..Len(t.all_files) :
              LET f == t.all_files[i] IN
              \/ f \in roots
              \/ \E root \in roots : isdir(root) /\ CleanBelow(t, root, f, Len(f) - 1)
        /\ t.pc \in {"walk", "files"} =>
              \A k \in 1..Len(t.stack) :
                  CleanBelow(t, t.selected_paths[t.path_i], t.stack[k], Len(t.stack[k]))
        /\ t.pc = "files" =>
              CleanBelow(t, t.selected_paths[t.path_i], t.top, Len(t.top))
        /\ \A i \in 1..Len(t.error_list) :
              t.error_list[i][2] \in SeqToSet(t.all_files)

C9_Witness ==
    \E w \in Threads :
        /\ threads[w].selected_paths = <<d_p>>
        /\ ~threads[w].git_tracked
        /\ threads[w].pc = "finished"
        /\ threads[w].all_files = <<f_a, f_E, f_d>>
        /\ Len(threads[w].error_list) = 1

\* C10: when the cancel flag is set while the worker is at the cancellation
\* check of file N+1 of M (N < M), its next step ends the run with the
\* cancellation note: N files were processed, at most N progress events
\* were emitted, no text was added and finished_successfully is not emitted.
C10_CancelDuringConcatenation ==
    [][\A w \in Threads :
          LET t == threads[w]
              t2 == threads'[w]
          IN
          (/\ t.pc = "concat" /\ t.is_cancelled /\ t.index <= t.total_files
           /\ t2 # t
           /\ t2 # unexpected_error(t, "fault"))
          => /\ t2.pc = "finished"
             /\ IsCancelledNote(Last(t2.events))
             /\ t2.index = t.index
             /\ CountSig(t2, "progress_update") <= t.index - 1
             /\ CountSig(t2, "finished_successfully") = 0
             /\ t2.concatenated_text = t.concatenated_text
      ]_vars

C10_Witness ==
    \E w \in Threads :
        /\ threads[w].pc = "finished"
        /\ IsCancelledNote(Last(threads[w].events))
        /\ threads[w].total_files = 3
        /\ threads[w].index = 3
        /\ CountSig(threads[w], "progress_update") = 1

\* some signal of t has this name and first argument
HasEvent(t, sig, tag) ==
    \E i \in 1..Len(t.events) : t.events[i].sig = sig /\ t.events[i].arg[1] = tag

\* C11: a run whose cancel flag was set during discovery (it ended without
\* ever reaching the concatenation, and without an internal fault) ends
\* cancelled: its last signal is the cancellation note and it emitted
\* neither "no files found", nor finished_successfully, nor a progress event.
C11_CancelDuringDiscovery ==
    \A w \in Threads :
        LET t == threads[w] IN
        (/\ t.pc = "finished" /\ t.is_cancelled /\ t.total_files = 0
         /\ ~HasEvent(t, "error_occurred", "unexpected"))
        => /\ IsCancelledNote(Last(t.events))
           /\ ~HasEvent(t, "error_occurred", "no_files")
           /\ CountSig(t, "finished_successfully") = 0
           /\ CountSig(t, "progress_update") = 0

\* C12: a run that ended in success has emitted exactly one progress event
\* per discovered file, whether the read of the file succeeded or failed.
C12_ProgressPerFile ==
    \A w \in Threads :
        LET t == threads[w] IN
        (t.pc = "finished" /\ CountSig(t, "finished_successfully") = 1)
        => CountSig(t, "progress_update") = Len(t.all_files)

\* C13: the progress event for the file at position index of total carries
\* floor(index * 100 / total) and the base name of that file (index and
\* total are those of the "Processing" status that follows it); the
\* percentages of a run lie in 0..100, never decrease, and the event of the
\* last file carries 100.
C13_ProgressPercentage ==
    \A w \in Threads :
        LET t == threads[w]
            ev == t.events
        IN
        \A i \in 1..(Len(ev) - 1) :
            ev[i].sig = "progress_update" =>
                LET index == ev[i + 1].arg[3]
                    total == ev[i + 1].arg[4]
                IN
                /\ ev[i].arg[1] = (index * 100) \div total
                /\ ev[i].arg[2] = basename(t.all_files[index])
                /\ ev[i].arg[1] \in 0..100
                /\ index = total => ev[i].arg[1] = 100
                /\ \A j \in 1..(i - 1) :
                      ev[j].sig = "progress_update" => ev[j].arg[1] <= ev[i].arg[1]

\* a step of worker w itself: the record changes while the cancel flag,
\* which only the GUI thread writes, keeps its value
WorkerStep(t, t2) ==
    t2 # t /\ t2.is_cancelled = t.is_cancelled /\ t2.pc # "none" /\ t.pc # "none"

\* the read of this file raises
FailsToRead(f) == f \in Unreadable \/ ~isfile(f)

\* C14: the iteration for a file whose read fails adds exactly one
\* error-list entry naming its path, adds nothing to the text, emits
\* nothing and leaves the worker in the loop at the next file; a run with
\* error-list entries that ends neither cancelled nor by an internal fault
\* ends in finished_successfully carrying those entries.
C14_ReadFailureRecorded ==
    [][\A w \in Threads :
          LET t == threads[w]
              t2 == threads'[w]
          IN
          /\ (/\ t.pc = "concat" /\ t.index <= t.total_files /\ ~t.is_cancelled
              /\ FailsToRead(t.all_files[t.index])
              /\ WorkerStep(t, t2) /\ ~IsFault(Last(t2.events)))
             => /\ t2.error_list =
                       Append(t.error_list, <<"Error reading", t.all_files[t.index]>>)
                /\ t2.concatenated_text = t.concatenated_text
                /\ t2.events = t.events
                /\ t2.index = t.index + 1
                /\ t2.pc = "concat"
          /\ (/\ t.pc = "concat" /\ t.error_list # <<>> /\ t2.pc = "finished"
              /\ ~IsCancelledNote(Last(t2.events)) /\ ~IsFault(Last(t2.events)))
             => /\ Last(t2.events).sig = "finished_successfully"
                /\ Last(t2.events).arg[3] = t.error_list
                /\ Len(t.error_list) =
                       Cardinality({i \in 1..Len(t.all_files) : FailsToRead(t.all_files[i])})
      ]_vars

C14_Witness ==
    \E w \in Threads :
        /\ threads[w].pc = "finished"
        /\ threads[w].all_files = <<f_E, f_d>>
        /\ threads[w].error_list = <<<<"Error reading", f_E>>>>
        /\ threads[w].concatenated_text # <<>>
        /\ Last(threads[w].events).sig = "finished_successfully"

\* a header line "=== ... ===" starts at position i of text
IsHeaderAt(text, i) ==
    /\ i = 1 \/ text[i - 1] = "\n"
    /\ i + 3 <= Len(text)
    /\ SubSeq(text, i, i + 3) = <<"=", "=", "=", " ">>
    /\ \E j \in (i + 4)..Len(text) :
          /\ text[j] = "\n"
          /\ \A k \in i..(j - 1) : text[k] # "\n"
          /\ j - i >= 8
          /\ SubSeq(text, j - 4, j - 1) = <<" ", "=", "=", "=">>

NumBlocks(text) == Cardinality({i \in 1..Len(text) : IsHeaderAt(text, i)})

\* C15: the file list of every success event is the discovered list, in
\* discovery order and with the files whose read failed, so its length is
\* the number of blocks of the text plus the number of error-list entries.
C15_SuccessListsAllFiles ==
    \A w \in Threads :
        LET t == threads[w] IN
        \A i \in 1..Len(t.events) :
            t.events[i].sig = "finished_successfully" =>
                LET e == t.events[i] IN
                /\ e.arg[2] = t.all_files
                /\ Len(e.arg[2]) = NumBlocks(e.arg[1]) + Len(e.arg[3])

C15_Witness ==
    \E w \in Threads :
        /\ CountSig(threads[w], "finished_successfully") = 1
        /\ Last(threads[w].events).arg[2] = <<f_a, f_E, f_d>>
        /\ Len(Last(threads[w].events).arg[3]) = 1
        /\ NumBlocks(Last(threads[w].events).arg[1]) = 2

\* "=== <basename> ===", newline, content, two newlines
Block(f) ==
    <<"=", "=", "=", " ">> \o f[Len(f)] \o <<" ", "=", "=", "=">> \o <<"\n">>
        \o Content(f) \o <<"\n", "\n">>

\* the blocks of the readable files among the first n of files, in order
RECURSIVE Blocks(_, _)
Blocks(files, n) ==
    IF n = 0 THEN <<>>
    ELSE IF FailsToRead(files[n]) THEN Blocks(files, n - 1)
    ELSE Blocks(files, n - 1) \o Block(files[n])

\* C16: during and after the concatenation the text is the sequence of the
\* blocks of the files read so far, one block per successfully read file,
\* in the order of the discovered list; the success event carries it.
C16_TextIsOrderedBlocks ==
    \A w \in Threads :
        LET t == threads[w] IN
        /\ t.total_files > 0 =>
              t.concatenated_text = Blocks(t.all_files, t.index - 1)
        /\ \A i \in 1..Len(t.events) :
              t.events[i].sig = "finished_successfully" =>
                  t.events[i].arg[1] = Blocks(t.all_files, Len(t.all_files))

C16_Witness ==
    \E w \in Threads :
        /\ threads[w].pc = "finished"
        /\ threads[w].all_files = <<f_a, f_E, f_d>>
        /\ threads[w].concatenated_text = Block(f_a) \o Block(f_d)
        /\ CountSig(threads[w], "finished_successfully") = 1

\* C17: a run whose discovery completed, uncancelled and without internal
\* fault, with an empty list has emitted "no files found"; a run that
\* emitted it ended there with an empty list, read no file, emitted no
\* progress event and no finished_successfully; a run with a non-empty list
\* never emits it.
C17_NoFilesFound ==
    \A w \in Threads :
        LET t == threads[w] IN
        /\ (/\ t.pc = "finished" /\ ~t.is_cancelled /\ t.all_files = <<>>
            /\ ~HasEvent(t, "error_occurred", "unexpected"))
           => IsNoFiles(Last(t.events))
        /\ HasEvent(t, "error_occurred", "no_files")
           => /\ t.pc = "finished"
              /\ IsNoFiles(Last(t.events))
              /\ t.all_files = <<>>
              /\ t.concatenated_text = <<>> /\ t.error_list = <<>> /\ t.index = 1
              /\ CountSig(t, "progress_update") = 0
              /\ CountSig(t, "finished_successfully") = 0
        /\ t.all_files # <<>> => ~HasEvent(t, "error_occurred", "no_files")
        /\ (t.pc = "concat" \/ CountSig(t, "finished_successfully") > 0)
           => t.all_files # <<>>

C17_Witness ==
    \E w \in Threads :
        /\ threads[w].pc = "finished"
        /\ ~threads[w].is_cancelled
        /\ threads[w].selected_paths = <<d_nm, p_gone>>
        /\ threads[w].include_extensions = {}
        /\ threads[w].events = <<Signal("error_occurred", <<"no_files">>)>>

\* C18: the step in which an internal fault is caught emits the one fatal
\* error_occurred and ends the run, changing nothing else; from then on
\* the worker does nothing: no file is read, no progress event and no
\* finished_successfully is emitted.
C18_FaultAbortsRun ==
    [][\A w \in Threads :
          LET t == threads[w]
              t2 == threads'[w]
          IN
          (t2.pc # "none" /\ HasEvent(t2, "error_occurred", "unexpected"))
          => /\ t2.pc = "finished"
             /\ Last(t2.events).sig = "error_occurred"
             /\ Last(t2.events).arg[1] = "unexpected"
             /\ Cardinality({i \in 1..Len(t2.events) :
                    t2.events[i].sig = "error_occurred"
                    /\ t2.events[i].arg[1] = "unexpected"}) = 1
             /\ CountSig(t2, "finished_successfully") = 0
             /\ IF HasEvent(t, "error_occurred", "unexpected")
                THEN t2 = t
                ELSE t2 = [t EXCEPT !.events = Append(@, Last(t2.events)),
                                    !.pc = "finished"]
      ]_vars

C18_Witness ==
    \E w \in Threads :
        /\ threads[w].pc = "finished"
        /\ IsFault(Last(threads[w].events))
        /\ CountSig(threads[w], "progress_update") = 1
        /\ threads[w].index = 2
        /\ threads[w].total_files = 3

\* C19: a worker that is no longer running ended by returning from run():
\* no action of the GUI thread (Cancel, closing the window) ends it.
C19_OnlyCooperativeStop ==
    \A w \in Threads :
        (threads[w].pc # "none" /\ ~isRunning(threads[w]))
        => /\ threads[w].pc = "finished"
           /\ IsTerminalEvent(Last(threads[w].events))

\* C20: every entry of the two caches of a thread object was stored after
\* a successful git invocation of that same object (so both caches are
\* empty when run() starts, whatever earlier runs resolved).
C20_CachesOwnedByRun ==
    \A w \in Threads :
        LET t == threads[w] IN
        /\ \A k \in DOMAIN t.repo_roots :
              \E i \in Calls(t, "rev-parse") :
                  /\ t.vcs_calls[i].key = k /\ t.vcs_calls[i].rc = "ok"
                  /\ t.repo_roots[k] = RepoOf(t.vcs_calls[i].cwd)
        /\ \A r \in DOMAIN t.tracked_files_cache :
              \E i \in Calls(t, "ls-files") :
                  /\ t.vcs_calls[i].cwd = r /\ t.vcs_calls[i].rc = "ok"
                  /\ t.tracked_files_cache[r] = TrackedFiles(r)
        /\ (t.pc = "roots" /\ t.path_i = 1) =>
              (t.repo_roots = <<>> /\ t.tracked_files_cache = <<>>)

C20_Witness ==
    \E w \in Threads :
        /\ app.runs = 2 /\ app.thread = w
        /\ app.clipboard # NoOutput
        /\ isRunning(threads[w])
        /\ Len(threads[w].vcs_calls) = 2
        /\ DOMAIN threads[w].repo_roots = {f_d}
        /\ DOMAIN threads[w].tracked_files_cache = {d_r}

(***************************************************************************)
(* The manifest and the final text.                                        *)
(***************************************************************************)
\* the step in which the GUI thread handles the finished_successfully
\* signal at the head of its queue
FinishedDelivered ==
    /\ inbox # <<>> /\ Head(inbox).sig = "finished_successfully"
    /\ ~app.closed
    /\ inbox' = Tail(inbox)

\* the manifest inside a final text whose concatenated text is text
ManifestOf(final, text) ==
    SubSeq(final, Len(TreeHeading) + 1, Len(final) - Len(ContentsHeading) - Len(text))

\* the nodes of the manifest: every non-empty prefix of a relative path
Nodes(files, dir) ==
    UNION {{SubSeq(relpath(f, dir), 1, k) : k \in 1..Len(relpath(f, dir))} :
              f \in SeqToSet(files)}

\* depth-first order with lexicographically ordered children: a node comes
\* before the nodes below it, and siblings go by their names
NodeBefore(x, y) ==
    \/ Len(x) < Len(y) /\ IsPrefix(x, y)
    \/ \E k \in 1..Len(x) :
          /\ k <= Len(y)
          /\ SubSeq(x, 1, k - 1) = SubSeq(y, 1, k - 1)
          /\ str_lt(x[k], y[k])

NodeLine(x) ==
    [i \in 1..(4 * (Len(x) - 1)) |-> " "] \o <<"-", " ">> \o x[Len(x)] \o <<"\n">>

RECURSIVE Rendered(_)
Rendered(nodes) ==
    IF nodes = {} THEN <<>>
    ELSE LET first == CHOOSE x \in nodes : \A y \in nodes \ {x} : NodeBefore(x, y)
         IN NodeLine(first) \o Rendered(nodes \ {first})

\* the lists that hold the entries of q in another order
Reorderings(q) ==
    {[i \in 1..Len(q) |-> q[f[i]]] :
        f \in {g \in [1..Len(q) -> 1..Len(q)] :
                  \A i, j \in 1..Len(q) : i # j => g[i] # g[j]}}

\* lists up to this length are checked in every order
MaxPermuted == 4

\* C21: the manifest written for a list of files is the depth-first
\* rendering of the tree of their paths relative to the selected directory:
\* one line per node, children in lexicographic order, four spaces per
\* level, prefix "- "; every reordering of the list gives the same manifest.
C21_ManifestDepthFirstSorted ==
    [][FinishedDelivered =>
          LET m == Head(inbox)
              manifest == ManifestOf(app'.clipboard, m.arg[1])
          IN /\ manifest = Rendered(Nodes(m.arg[2], app.selected_directory))
             /\ Len(m.arg[2]) <= MaxPermuted =>
                   \A q \in Reorderings(m.arg[2]) :
                       generate_file_tree(q, app.selected_directory) = manifest]_vars

\* a manifest was written for a list that names a file two levels down
\* before a file of the selected directory
C21_Witness ==
    /\ app.thread # 0 /\ app.clipboard # NoOutput
    /\ LET files == threads[app.thread].all_files IN
       /\ threads[app.thread].pc = "finished"
       /\ Len(files) >= 2
       /\ Len(relpath(files[1], app.selected_directory)) = 2
       /\ Len(relpath(files[Len(files)], app.selected_directory)) = 1
       /\ app.clipboard = TreeHeading
              \o generate_file_tree(files, app.selected_directory)
              \o ContentsHeading \o threads[app.thread].concatenated_text

\* the nodes of a manifest that shows a file outside dir by its base name
NodesWithLeaves(files, dir) ==
    UNION {IF IsPrefix(dir, f)
           THEN {SubSeq(relpath(f, dir), 1, k) : k \in 1..Len(relpath(f, dir))}
           ELSE {<<basename(f)>>} : f \in SeqToSet(files)}

\* C22: a file of the list that is not under the selected directory is shown
\* in the manifest as a top-level leaf named by its base name: the manifest
\* has no ".." node and no directory node for it.
C22_OutsideFileAsLeaf ==
    [][FinishedDelivered =>
          LET m == Head(inbox) IN
          ManifestOf(app'.clipboard, m.arg[1])
              = Rendered(NodesWithLeaves(m.arg[2], app.selected_directory))]_vars

\* reading a manifest back: a line is 4 * depth spaces, "- ", a name; the
\* parent of a line is the nearest line above it that is one level up
LineStarts(text) == {i \in 1..Len(text) : i = 1 \/ text[i - 1] = "\n"}

LineEnd(text, i) == CHOOSE j \in i..Len(text) : text[j] = "\n" /\ \A k \in i..(j - 1) : text[k] # "\n"

Indent(text, i) == CHOOSE n \in 0..Len(text) : text[i + n] # " " /\ \A k \in 0..(n - 1) : text[i + k] = " "

Depth(text, i) == Indent(text, i) \div 4

NameAt(text, i) == SubSeq(text, i + Indent(text, i) + 2, LineEnd(text, i) - 1)

RECURSIVE PathAt(_, _)
PathAt(text, i) ==
    IF Depth(text, i) = 0 THEN <<NameAt(text, i)>>
    ELSE LET above == {j \in LineStarts(text) : j < i /\ Depth(text, j) = Depth(text, i) - 1}
             parent == CHOOSE j \in above : \A k \in above : k <= j
         IN Append(PathAt(text, parent), NameAt(text, i))

IsLeafLine(text, i) ==
    LET next == LineEnd(text, i) + 1 IN
    next > Len(text) \/ Depth(text, next) <= Depth(text, i)

ParseManifest(text) ==
    {PathAt(text, i) : i \in {j \in LineStarts(text) : IsLeafLine(text, j)}}

\* C23: for a list of files under the selected directory, repeated or not,
\* reading the manifest back by indentation depth gives exactly the set of
\* the paths of the files relative to the selected directory.
C23_ManifestRoundTrip ==
    [][(/\ FinishedDelivered
        /\ \A f \in SeqToSet(Head(inbox).arg[2]) : IsPrefix(app.selected_directory, f))
        => ParseManifest(ManifestOf(app'.clipboard, Head(inbox).arg[1]))
              = {relpath(f, app.selected_directory) : f \in SeqToSet(Head(inbox).arg[2])}]_vars

\* a manifest was written for a list that names a file of a subdirectory
\* twice, and it reads back as the paths of the list
C23_Witness ==
    /\ app.thread # 0 /\ app.clipboard # NoOutput
    /\ LET files == threads[app.thread].all_files
           text == threads[app.thread].concatenated_text
       IN
       /\ threads[app.thread].pc = "finished"
       /\ \E i, j \in 1..Len(files) :
             i # j /\ files[i] = files[j] /\ Len(relpath(files[i], app.selected_directory)) = 2
       /\ \A f \in SeqToSet(files) : IsPrefix(app.selected_directory, f)
       /\ Len(app.clipboard) > Len(TreeHeading) + Len(ContentsHeading) + Len(text)
       /\ ParseManifest(ManifestOf(app.clipboard, text))
             = {relpath(f, app.selected_directory) : f \in SeqToSet(files)}

\* the whitespace-delimited tokens of a text, counted by their last characters
Tokens(text) ==
    Cardinality({i \in 1..Len(text) :
                    /\ text[i] \notin {" ", "\t", "\n", "\r"}
                    /\ (i = Len(text) \/ text[i + 1] \in {" ", "\t", "\n", "\r"})})

\* C24: the counts shown after a successful save are: charCount the length
\* of the concatenated text, wordCount the number of whitespace-delimited
\* tokens of the concatenated text, totalLength the length of the final
\* text; totalLength - charCount - length of the manifest is 43 in every run.
C24_CountsOfTexts ==
    [][(FinishedDelivered /\ Head(inbox).save_to_file /\ app.output_writable) =>
          LET text == Head(inbox).arg[1]
              manifest == generate_file_tree(Head(inbox).arg[2], app.selected_directory)
              box == app'.success_box
          IN /\ box.char_count = Len(text)
             /\ box.word_count = Tokens(text)
             /\ box.total_length = Len(app'.output_file)
             /\ box.total_length - box.char_count - Len(manifest) = 43]_vars

\* the counts of a saved output whose text has tokens on several lines
C24_Witness ==
    /\ app.thread # 0 /\ app.output_file # NoOutput
    /\ threads[app.thread].pc = "finished"
    /\ app.success_box.char_count = Len(threads[app.thread].concatenated_text)
    /\ app.success_box.word_count = Tokens(threads[app.thread].concatenated_text)
    /\ app.success_box.word_count > 3
    /\ app.success_box.total_length = Len(app.output_file)
    /\ app.success_box.total_length > app.success_box.char_count + 43

(***************************************************************************)
(* Requests and what they discover.                                        *)
(***************************************************************************)
\* C25: a run whose set of extensions is empty discovers no file, reads
\* nothing and never emits finished_successfully or a progress event; when
\* it has ended without internal fault, its last signal is "no files found"
\* or the cancellation note.
C25_EmptyExtensionsNoOutput ==
    \A w \in Threads :
        LET t == threads[w] IN
        (t.pc # "none" /\ t.include_extensions = {})
        => /\ t.all_files = <<>> /\ t.concatenated_text = <<>>
           /\ t.pc # "concat"
           /\ CountSig(t, "finished_successfully") = 0
           /\ CountSig(t, "progress_update") = 0
           /\ (t.pc = "finished" /\ ~HasEvent(t, "error_occurred", "unexpected"))
              => (IsNoFiles(Last(t.events)) \/ IsCancelledNote(Last(t.events)))

\* a run with no extension ended "no files found" over a file root and a
\* directory root that hold files of the usual extensions
C25_Witness ==
    \E w \in Threads :
        /\ threads[w].pc = "finished"
        /\ threads[w].include_extensions = {}
        /\ threads[w].selected_paths = <<d_r, f_a>>
        /\ IsNoFiles(Last(threads[w].events))

\* the ways to cut a list of n files into one run of files per root: c[k] is
\* the number of files listed for the first k roots
Cuts(n, m) ==
    {c \in [1..(m - 1) -> 0..n] : \A k \in 1..(m - 2) : c[k] <= c[k + 1]}

RootOf(c, i) == 1 + Cardinality({k \in DOMAIN c : c[k] < i})

\* file f can come from root r
FromRoot(f, r) == (isfile(r) /\ f = r) \/ (isdir(r) /\ f # r /\ IsPrefix(r, f))

\* C26: the list of discovered files is cut into one run per root, in the
\* order of the roots; within the run of a directory root the files of a
\* directory come before the files below its subdirectories and the files
\* of one subtree are contiguous; the text holds the blocks in list order.
C26_DiscoveryOrder ==
    \A w \in Threads :
        LET t == threads[w]
            L == t.all_files
            R == t.selected_paths
        IN
        /\ \E c \in Cuts(Len(L), Len(R)) :
              /\ \A i \in 1..Len(L) : FromRoot(L[i], R[RootOf(c, i)])
              /\ \A i, j \in 1..Len(L) :
                    (i < j /\ RootOf(c, i) = RootOf(c, j)) =>
                       /\ ~(/\ dirname(L[j]) # dirname(L[i])
                            /\ IsPrefix(dirname(L[j]), dirname(L[i])))
                       /\ \A k \in i..j :
                             IsPrefix(SubSeq(L[i], 1, common_len(dirname(L[i]), dirname(L[j]))), L[k])
        /\ t.total_files > 0 => t.concatenated_text = Blocks(L, t.index - 1)
        /\ \A e \in SeqToSet(t.events) :
              e.sig = "finished_successfully" => e.arg[2] = L

\* a finished run over the directory roots p and p/r with nothing ignored:
\* the files of p, of p/r, of p/r/nm, of p/nm, then those of the second root
C26_Witness ==
    \E w \in Threads :
        /\ threads[w].pc = "finished"
        /\ threads[w].selected_paths = <<d_p, d_r>>
        /\ threads[w].all_files = <<f_a, f_E, f_d, f_g, f_c, f_E, f_d, f_g>>
        /\ CountSig(threads[w], "finished_successfully") = 1

\* what a walk lists when a directory that cannot be listed counts as empty
Passes(t, f) == is_included_file(t, f) /\ ~is_ignored_file(t, f)

RECURSIVE ExpectedWalk(_, _)
RECURSIVE ExpectedBelow(_, _, _)
ExpectedWalk(t, dir) ==
    IF dir \in Unlistable THEN <<>>
    ELSE SelectSeq([i \in 1..Len(ListFiles(dir)) |-> join(dir, ListFiles(dir)[i])],
                   LAMBDA f : Passes(t, f))
         \o ExpectedBelow(t, dir, ListDirs(dir))

ExpectedBelow(t, dir, dirs) ==
    IF dirs = <<>> THEN <<>>
    ELSE (IF Head(dirs) \in SeqToSet(t.directory_ignore_patterns) THEN <<>>
          ELSE ExpectedWalk(t, join(dir, Head(dirs))))
         \o ExpectedBelow(t, dir, Tail(dirs))

RECURSIVE ExpectedFiles(_, _)
ExpectedFiles(t, n) ==
    IF n = 0 THEN <<>>
    ELSE LET r == t.selected_paths[n] IN
         ExpectedFiles(t, n - 1)
            \o (IF isfile(r) THEN (IF Passes(t, r) THEN <<r>> ELSE <<>>)
                ELSE IF isdir(r) THEN ExpectedWalk(t, r) ELSE <<>>)

UnderUnlistable(path) == \E z \in Unlistable : IsPrefix(z, path)

\* C27: a directory that cannot be listed gives no file to the list, no
\* error signal and no entry of the error list names it or a path below it,
\* and the run goes on: an uncancelled run over all files without internal
\* fault ends with the list, and the outcome, of the same tree with that
\* directory empty.
C27_UnlistableDirectorySkipped ==
    \A w \in Threads :
        LET t == threads[w] IN
        /\ \A i \in 1..Len(t.all_files) : ~UnderUnlistable(t.all_files[i])
        /\ \A i \in 1..Len(t.error_list) : ~UnderUnlistable(t.error_list[i][2])
        /\ \A i \in 1..Len(t.events) :
              (t.events[i].sig = "error_occurred" /\ Len(t.events[i].arg) = 2
                  /\ t.events[i].arg[1] # "unexpected")
              => ~UnderUnlistable(t.events[i].arg[2])
        /\ (/\ t.pc = "finished" /\ ~t.git_tracked /\ ~t.is_cancelled
            /\ ~HasEvent(t, "error_occurred", "unexpected"))
           => /\ t.all_files = ExpectedFiles(t, Len(t.selected_paths))
              /\ IF t.all_files = <<>> THEN IsNoFiles(Last(t.events))
                 ELSE Last(t.events).sig = "finished_successfully"

\* the walk of p has passed the unlistable p/z and is listing p/nm
C27_Witness ==
    \E w \in Threads :
        /\ threads[w].selected_paths = <<d_p>>
        /\ threads[w].pc = "files" /\ threads[w].top = d_nm
        /\ threads[w].all_files = <<f_a, f_E, f_d, f_g>>
        /\ threads[w].events = <<>> /\ threads[w].error_list = <<>>

\* the part of a name from its last "." on, empty when it has none
LastDotOn(name) ==
    LET dot == rfind_dot(name, Len(name)) IN
    IF dot = 0 THEN <<>> ELSE SubSeq(name, dot, Len(name))

\* C28: a file passes the extension filter exactly when the part of its
\* final segment from the last "." on, lower-cased, is in the set of the
\* request, names that begin with their only dot included: in an all-files
\* run an iteration of the file loop appends the file exactly when that
\* part is in the set and no ignore pattern matches the name.
C28_ExtensionFromLastDot ==
    [][\A w \in Threads :
          LET t == threads[w]
              t2 == threads'[w]
          IN (/\ WorkerStep(t, t2) /\ t.pc = "files" /\ t2.pc # "finished"
              /\ ~t.is_cancelled /\ ~t.git_tracked)
             => LET f == join(t.top, Head(t.files)) IN
                (t2.all_files = Append(t.all_files, f))
                   <=> (/\ lower(LastDotOn(basename(f))) \in t.include_extensions
                        /\ ~is_ignored_file(t, f))]_vars

\* the request a thread object was constructed with
Request(t) ==
    <<t.selected_paths, t.git_tracked, t.directory_ignore_patterns,
      t.file_ignore_patterns, t.include_extensions>>

\* C29: no step taken while a worker runs, an edit of the widgets included,
\* changes the request it was constructed with, and the files it has
\* listed obey the rules of that request: they pass its extension and name
\* filters and lie under a directory root with no directory of its ignore
\* set on the way, or are file roots.
C29_RequestFrozen ==
    [][\A w \in Threads :
          isRunning(threads[w]) =>
             LET t2 == threads'[w] IN
             /\ Request(t2) = Request(threads[w])
             /\ \A i \in 1..Len(t2.all_files) :
                   LET f == t2.all_files[i] IN
                   /\ Passes(t2, f)
                   /\ \/ f \in SeqToSet(t2.selected_paths)
                      \/ \E root \in SeqToSet(t2.selected_paths) :
                            isdir(root) /\ CleanBelow(t2, root, f, Len(f) - 1)]_vars

\* while the worker lists p/r the user has emptied the ignore list and
\* opened another directory; the worker has passed p/r/nm by
C29_Witness ==
    /\ app.thread # 0
    /\ app.ignore_dir_list = <<>> /\ app.checked = {}
    /\ LET t == threads[app.thread] IN
       /\ t.pc = "concat"
       /\ t.selected_paths = <<d_r>>
       /\ t.directory_ignore_patterns = <<n_nm>>
       /\ f_g \notin SeqToSet(t.all_files)
       /\ t.all_files # <<>>

\* C30: no file is listed twice by a run (and so, the text being the blocks
\* of the list, no file has two blocks), whatever roots the checked items
\* of the tree give, a checked directory with checked items inside included.
C30_NoFileListedTwice ==
    \A w \in Threads :
        \A i, j \in 1..Len(threads[w].all_files) :
            i # j => threads[w].all_files[i] # threads[w].all_files[j]

(***************************************************************************)
(* The collaborator after a run.                                           *)
(***************************************************************************)
\* every thread object has left run() and every signal was handled: only a
\* click can change the state from here
Quiescent ==
    /\ \A w \in Threads : ~isRunning(threads[w])
    /\ inbox = <<>>

\* C31: after a run, whatever its outcome, the controls are enabled again:
\* once the worker has ended and the GUI thread has handled all its
\* signals, with the window still open, Generate is enabled.
C31_ControlsReenabled ==
    (/\ app.thread # 0 /\ threads[app.thread].pc = "finished"
     /\ Quiescent /\ ~app.closed)
    => app.ui_enabled

\* C32: a thread object whose cancel flag is set (cancel_concatenation sets
\* it only while the thread is running) emits no finished_successfully from
\* then on, so that nothing is written for the cancelled run.
C32_NoSuccessAfterCancel ==
    [][\A w \in Threads :
          threads[w].is_cancelled =>
             CountSig(threads'[w], "finished_successfully")
                <= CountSig(threads[w], "finished_successfully")]_vars

Written(a) == <<a.clipboard, a.output_file, a.clipboard_writes, a.file_writes>>

\* C33: the clipboard and the output file are written only in the step that
\* handles a finished_successfully signal, so nothing is written for a run
\* that ends cancelled, with no files or with a fault; that step sets the
\* clipboard at most once, and only if the run was to copy, and writes the
\* file at most once, and only if the run was to save.
C33_OutputOnlyOnSuccess ==
    [][Written(app') # Written(app) =>
          /\ FinishedDelivered
          /\ app'.clipboard_writes - app.clipboard_writes
                = (IF Head(inbox).copy_to_clipboard THEN 1 ELSE 0)
          /\ app'.file_writes - app.file_writes \in
                (IF Head(inbox).save_to_file THEN {0, 1} ELSE {0})
          /\ app'.clipboard_writes = app.clipboard_writes => app'.clipboard = app.clipboard
          /\ app'.file_writes = app.file_writes => app'.output_file = app.output_file]_vars

\* two runs have succeeded and each was copied once and saved once
C33_Witness ==
    /\ app.runs = 2 /\ Quiescent
    /\ app.clipboard_writes = 2 /\ app.file_writes = 2
    /\ app.clipboard # NoOutput /\ app.output_file = app.clipboard

Missing(path) == ~isfile(path) /\ ~isdir(path)

\* C34: the iteration of the root loop for a root that is neither a file
\* nor a directory (and that is not ended by the cancel flag or by an
\* internal fault) only advances to the next root: the list, the signals,
\* the error list and the git calls stay as they are; a finished uncancelled
\* all-files run without fault lists every file root that passes the
\* filters, those after a missing root included, and names no missing root
\* in its list or its error list.
C34_MissingRootSkipped ==
    [][\A w \in Threads :
          LET t == threads[w]
              t2 == threads'[w]
          IN
          /\ (/\ WorkerStep(t, t2) /\ t.pc = "roots"
              /\ t.path_i <= Len(t.selected_paths)
              /\ Missing(t.selected_paths[t.path_i])
              /\ ~t.is_cancelled
              /\ (t2.events = t.events \/ ~IsFault(Last(t2.events))))
             => t2 = [t EXCEPT !.path_i = @ + 1]
          /\ (/\ t2.pc = "finished" /\ ~t2.git_tracked /\ ~t2.is_cancelled
              /\ ~HasEvent(t2, "error_occurred", "unexpected"))
             => /\ \A r \in SeqToSet(t2.selected_paths) :
                      (isfile(r) /\ Passes(t2, r)) => r \in SeqToSet(t2.all_files)
                /\ \A i \in 1..Len(t2.all_files) : ~Missing(t2.all_files[i])]_vars

\* a finished run over the missing root p/gone and the file p/a.py after it
C34_Witness ==
    \E w \in Threads :
        /\ threads[w].pc = "finished"
        /\ threads[w].selected_paths = <<p_gone, f_a>>
        /\ threads[w].all_files = <<f_a>>
        /\ threads[w].error_list = <<>>
        /\ CountSig(threads[w], "error_occurred") = 0
        /\ CountSig(threads[w], "finished_successfully") = 1

====
